---- MODULE Spec2Model ----
(***************************************************************************)
(* pytest-html (SalmonMode fork): the result tree of HTMLReport.           *)
(*                                                                         *)
(* A string is a sequence of tokens; the separators the code searches for  *)
(* ("/", "::", "()", "[", ".") are tokens of their own, so that index,     *)
(* split and replace are computed as the code computes them.  Node and     *)
(* descriptor instances are named by their position in the class-level     *)
(* registries (0 is None).                                                 *)
(***************************************************************************)
EXTENDS Integers, Sequences, FiniteSets, TLC

VARIABLES
    node_instances,   \* Node._node_instances
    pfsi_instances,   \* ParameterizedFixtureStateInfo._pfsi_instances
    results_tree,     \* HTMLReport.results_tree: summary and root nodes
    results,          \* HTMLReport.results / test_logs: the sorted table rows
    counters,         \* HTMLReport.errors, failed, passed, skipped, xfailed, xpassed
    rerun,            \* HTMLReport.rerun
    param_index,      \* FixtureDef.param_index of every live fixture definition
    raised,           \* the exception the last hook call ended with ("none": it returned)
    calls             \* history: the hook calls so far, each with its report and
                      \* with what _appendrow made of it

vars == <<node_instances, pfsi_instances, results_tree, results, counters,
          rerun, param_index, raised, calls>>

(***************************************************************************)
(* Bounds of the model.                                                    *)
(***************************************************************************)
MaxReports == 2

\* the runs of pytest in one process
MaxRuns == 2

(***************************************************************************)
(* Python sequence helpers.                                                *)
(***************************************************************************)
Range(s) == {s[i] : i \in 1..Len(s)}

\* s.index(x) as a 1-based position, 0 when x is not in s (ValueError)
IndexOf(s, x) ==
    IF x \in Range(s)
    THEN CHOOSE i \in 1..Len(s) : s[i] = x /\ \A j \in 1..(i - 1) : s[j] # x
    ELSE 0

\* s.split(sep) for a one-token separator
RECURSIVE Split(_, _)
Split(s, sep) ==
    LET i == IndexOf(s, sep)
    IN  IF i = 0 THEN <<s>>
        ELSE <<SubSeq(s, 1, i - 1)>> \o Split(SubSeq(s, i + 1, Len(s)), sep)

\* s.replace("::()", "")
RECURSIVE DropClassMarker(_)
DropClassMarker(s) ==
    IF Len(s) < 2 THEN s
    ELSE IF s[1] = "::" /\ s[2] = "()" THEN DropClassMarker(SubSeq(s, 3, Len(s)))
    ELSE <<s[1]>> \o DropClassMarker(Tail(s))

\* the 1-based position of s[i] under Python indexing (negative i counts from
\* the end); 0 when s[i] raises IndexError
PyPos(s, i) ==
    LET p == IF i >= 0 THEN i + 1 ELSE Len(s) + i + 1
    IN  IF p \in 1..Len(s) THEN p ELSE 0

(***************************************************************************)
(* get_simplified_chain                                                    *)
(***************************************************************************)
\* a link is the dict {"name", "params"}; only the last link has the key
\* "nodeid" (here the empty string stands for the missing key elsewhere)
Links(names, nodeid) ==
    [i \in 1..Len(names) |->
        [name |-> names[i], params |-> <<>>,
         nodeid |-> IF i = Len(names) THEN nodeid ELSE <<>>]]

\* package_chain.pop() and the two lines after it
LocalChain(package_chain) ==
    SubSeq(package_chain, 1, Len(package_chain) - 1)
        \o Split(DropClassMarker(package_chain[Len(package_chain)]), "::")

\* (mutant) the parameter suffix is kept
BeforeParamsKept(nodeid, param_start_index) == nodeid

\* nodeid[:nodeid.index("[")], the whole nodeid when index raises ValueError
BeforeParams(nodeid, param_start_index) ==
    IF param_start_index = 0 THEN nodeid ELSE SubSeq(nodeid, 1, param_start_index - 1)

get_simplified_chain(nodeid) ==
    Links(LocalChain(Split(BeforeParams(nodeid, IndexOf(nodeid, "[")), "/")), nodeid)

ChainNames(chain) == [i \in 1..Len(chain) |-> chain[i].name]

(***************************************************************************)
(* The host's fixture metadata.  A live FixtureDef is the record           *)
(*   [fid, argname, scopenum, marked, autouse, baseid, params, argnames,   *)
(*    ids, cached]                                                         *)
(* fid is the identity of the object; marked says whether its function     *)
(* carries _pytestfixturefunction (the pseudo fixtures of a direct         *)
(* parametrization do not); cached says whether it has the attribute       *)
(* cached_result.  item._fixtureinfo.name2fixturedefs is the sequence of   *)
(* the first definitions (v[0]) in the dict's order, keyed by argname.     *)
(***************************************************************************)
FixtureNames(fixturedefs) == {fixturedefs[i].argname : i \in 1..Len(fixturedefs)}

FixtureNamed(fixturedefs, name) ==
    fixturedefs[CHOOSE i \in 1..Len(fixturedefs) : fixturedefs[i].argname = name]

\* FixtureDef.ids: None, a list of ids, or a callable that returns an id or
\* raises
NoIds == [kind |-> "none", items |-> <<>>, raises |-> "none"]

(***************************************************************************)
(* get_fixture_dependancies                                                *)
(***************************************************************************)
\* The recursion has no visited set.  Once it is deeper than the number of
\* registered fixtures a name is on the stack twice and it never bottoms
\* out: Python ends it with RecursionError.
RECURSIVE RecursionOverflows(_, _, _)
RecursionOverflows(name, fixturedefs, depth) ==
    IF name \notin FixtureNames(fixturedefs) THEN FALSE
    ELSE IF depth > Len(fixturedefs) THEN TRUE
    ELSE \E arg \in Range(FixtureNamed(fixturedefs, name).argnames) :
            RecursionOverflows(arg, fixturedefs, depth + 1)

DirectDependancies(name, fixturedefs) ==
    IF name \notin FixtureNames(fixturedefs) THEN {}
    ELSE Range(FixtureNamed(fixturedefs, name).argnames)

\* (mutant) only the arguments that are registered fixtures are added
RECURSIVE RegisteredDependancies(_, _)
RegisteredDependancies(name, fixturedefs) ==
    IF name \notin FixtureNames(fixturedefs) THEN {}
    ELSE (Range(FixtureNamed(fixturedefs, name).argnames) \cap FixtureNames(fixturedefs))
         \cup UNION {RegisteredDependancies(arg, fixturedefs) :
                        arg \in Range(FixtureNamed(fixturedefs, name).argnames)}

\* evaluated only where the recursion ends
RECURSIVE get_fixture_dependancies(_, _)
get_fixture_dependancies(name, fixturedefs) ==
    IF name \notin FixtureNames(fixturedefs) THEN {}
    ELSE LET argnames == Range(FixtureNamed(fixturedefs, name).argnames)
         IN  argnames \cup
             UNION {get_fixture_dependancies(arg, fixturedefs) : arg \in argnames}

(***************************************************************************)
(* _appendrow, lines 502-547: param_fixtures and the autouse cascade       *)
(***************************************************************************)
\* getattr(getattr(fix.func, "_pytestfixturefunction", True), "autouse", True)
DeclaredAutouse(fix) == IF fix.marked THEN fix.autouse ELSE TRUE

ParamFixture(fix) ==
    [name |-> fix.argname,
     scopenum |-> fix.scopenum,
     autouse |-> DeclaredAutouse(fix),
     baseid |-> fix.baseid,
     fixturedef |-> fix.fid,
     cached |-> fix.cached,
     parameterized |-> Len(fix.params) > 0]

\* one iteration of the outer loop, for the i-th key: the inner loop breaks
\* at the first autouse fixture that depends on it
CascadeStep(pfs, dependancies, i) ==
    IF \E k \in 1..Len(pfs) :
            pfs[k].autouse /\ pfs[i].name \in dependancies[pfs[k].name]
    THEN [pfs EXCEPT ![i].autouse = TRUE]
    ELSE pfs

RECURSIVE CascadeFrom(_, _, _)
CascadeFrom(pfs, dependancies, i) ==
    IF i > Len(pfs) THEN pfs
    ELSE CascadeFrom(CascadeStep(pfs, dependancies, i), dependancies, i + 1)

Dependancies(fixturedefs) ==
    [n \in FixtureNames(fixturedefs) |-> get_fixture_dependancies(n, fixturedefs)]

\* param_fixtures after the cascade, in the dict's order
CascadeAutouse(fixturedefs) ==
    CascadeFrom([i \in 1..Len(fixturedefs) |-> ParamFixture(fixturedefs[i])],
                Dependancies(fixturedefs), 1)

\* sorted(param_fixtures, key=scopenum): a stable sort
RECURSIVE SortedByScopenum(_)
SortedByScopenum(pfs) ==
    IF pfs = <<>> THEN <<>>
    ELSE LET least == CHOOSE i \in 1..Len(pfs) :
                        /\ \A j \in 1..Len(pfs) : pfs[i].scopenum <= pfs[j].scopenum
                        /\ \A j \in 1..(i - 1) : pfs[j].scopenum # pfs[i].scopenum
         IN  <<pfs[least]>> \o
             SortedByScopenum(SubSeq(pfs, 1, least - 1) \o SubSeq(pfs, least + 1, Len(pfs)))

(***************************************************************************)
(* _appendrow, lines 551-600: where a parameterized fixture branches       *)
(***************************************************************************)
SESSION_SCOPE == 0
MODULE_SCOPE == 1
CLASS_SCOPE == 2
FUNCTION_SCOPE == 3

\* (mutant) only the scope is looked at, not the autouse flag
BranchesOnFunctionByScope(pf) == pf.scopenum = FUNCTION_SCOPE

\* line 562
BranchesOnFunction(pf) == pf.scopenum = FUNCTION_SCOPE \/ pf.autouse = FALSE

\* (mutant) a session fixture always branches the first link
SessionIndexFirst(chain) == 0

\* line 572: chain is the chain of the fixture's base id
SessionIndex(chain) == Len(chain) - 1

\* lines 580-591
ModuleIndex(pf, item, chain) ==
    LET module_depth == Len(Split(item.module_name, "."))
        fixture_depth == Len(Split(pf.baseid, "/"))
    IN  IF fixture_depth <= module_depth THEN module_depth - 1 ELSE Len(chain) - 1

\* (mutant) a class fixture branches where it is declared
ClassIndexDeclared(chain) == Len(chain) - 1

\* line 599: simple_chain[-2], whatever the chain of the base id
ClassIndex(chain) == -2

\* the subscript the code appends pf at: [attach |-> FALSE] when no branch
\* of the if/elif chain is taken
AttachIndex(pf, item, chain) ==
    IF BranchesOnFunction(pf) THEN [attach |-> TRUE, index |-> -1]
    ELSE IF pf.scopenum = SESSION_SCOPE
    THEN [attach |-> TRUE, index |-> SessionIndex(chain)]
    ELSE IF pf.scopenum = MODULE_SCOPE
    THEN [attach |-> TRUE, index |-> ModuleIndex(pf, item, chain)]
    ELSE IF pf.scopenum = CLASS_SCOPE
    THEN [attach |-> TRUE, index |-> ClassIndex(chain)]
    ELSE [attach |-> FALSE, index |-> 0]

\* the loop over the sorted param_fixtures from the k-th on; exc is
\* "IndexError" when a subscript is out of range
RECURSIVE PlaceFrom(_, _, _, _)
PlaceFrom(pfs, k, simple_chain, item) ==
    IF k > Len(pfs) THEN [exc |-> "none", chain |-> simple_chain]
    ELSE IF ~pfs[k].parameterized THEN PlaceFrom(pfs, k + 1, simple_chain, item)
    ELSE LET at == AttachIndex(pfs[k], item, get_simplified_chain(pfs[k].baseid))
             pos == PyPos(simple_chain, at.index)
         IN  IF ~at.attach THEN PlaceFrom(pfs, k + 1, simple_chain, item)
             ELSE IF pos = 0 THEN [exc |-> "IndexError", chain |-> simple_chain]
             ELSE PlaceFrom(pfs, k + 1,
                            [simple_chain EXCEPT ![pos].params = Append(@, pfs[k])],
                            item)

(***************************************************************************)
(* ParameterizedFixtureStateInfo: __new__, __init__, __eq__                *)
(***************************************************************************)
\* (mutant) descriptors of one fixture are equal whatever the parameter
PfsiEqByFixture(a, b) == a.fixture_def = b.fixture_def

\* __eq__: the same live fixture definition and the same param_index
PfsiEq(a, b) == a.fixture_def = b.fixture_def /\ a.param_index = b.param_index

\* the properties name and baseid: read from the live fixture definition
pfsi_name(fixture_def) == fixture_def.argname

pfsi_baseid(fixture_def) == fixture_def.baseid

\* the property value; index is self.param_index, <<>> for None
pfsi_value(index, fixture_def) ==
    IF index # <<>> THEN <<fixture_def.params[index[1] + 1]>> ELSE <<"unknown">>

\* fixture_def.ids(value) for a callable ids: the id it returns, or what it
\* raises
CalledIds(ids, value) ==
    IF ids.raises = "none" THEN [exc |-> "none", value |-> <<"id">> \o value]
    ELSE [exc |-> ids.raises, value |-> <<>>]

\* a list is true when it is not empty
Truthy(ids) == ids.kind = "callable" \/ (ids.kind = "list" /\ ids.items # <<>>)

\* the property description: the value it returns or the exception it ends
\* with
pfsi_description(index, fixture_def) ==
    IF Truthy(fixture_def.ids) /\ index # <<>>
    THEN IF fixture_def.ids.kind = "list"
         THEN IF index[1] < Len(fixture_def.ids.items)
              THEN [exc |-> "none", value |-> <<fixture_def.ids.items[index[1] + 1]>>]
              ELSE [exc |-> "IndexError", value |-> <<>>]
         ELSE IF CalledIds(fixture_def.ids, pfsi_value(index, fixture_def)).exc = "TypeError"
              THEN [exc |-> "none", value |-> pfsi_value(index, fixture_def)]
              ELSE CalledIds(fixture_def.ids, pfsi_value(index, fixture_def))
    ELSE [exc |-> "none", value |-> pfsi_value(index, fixture_def)]

\* ParameterizedFixtureStateInfo.__init__ on a fresh object: the fixture
\* definition, the index, and the strings of its cached_result as it is
\* now, None (<<>>) when it has none
PfsiInit(fixture_def, index, cached) ==
    [fixture_def |-> fixture_def,
     param_index |-> index,
     cached_result |-> IF cached THEN <<"result">> ELSE <<>>]

\* __init__ on the registered object id, with the arguments temp was made
\* from: it returns at once when _alread_initialized is set
PfsiInitOn(instances, id, temp, alread_initialized) ==
    IF alread_initialized THEN instances ELSE [instances EXCEPT ![id] = temp]

\* the __init__ Python runs on the object __new__ returned.  Nothing
\* assigns _alread_initialized: it is the class attribute, False.
PfsiReturned(found, temp) ==
    [found EXCEPT !.instances = PfsiInitOn(@, found.id, temp, FALSE)]

\* the first of the instances that equal temp: list.index
PfsiFound(instances, temp, hits) ==
    IF hits = {}
    THEN [instances |-> Append(instances, temp), id |-> Len(instances) + 1]
    ELSE [instances |-> instances, id |-> CHOOSE i \in hits : \A j \in hits : i <= j]

\* ParameterizedFixtureStateInfo(fixture_def, param_index): the registry after
\* the call and the instance returned
PfsiNew(instances, temp) ==
    PfsiReturned(
        PfsiFound(instances, temp, {i \in 1..Len(instances) : PfsiEq(instances[i], temp)}),
        temp)

PfsiAdded(acc, one) == [instances |-> one.instances, ids |-> Append(acc.ids, one.id)]

\* the list comprehension of line 606 over link["params"], from the k-th on;
\* acc is the registry and the instances made so far
RECURSIVE PfsiAll(_, _, _, _)
PfsiAll(acc, pfs, pindex, k) ==
    IF k > Len(pfs) THEN acc
    ELSE PfsiAll(PfsiAdded(acc, PfsiNew(acc.instances,
                                        PfsiInit(pfs[k].fixturedef,
                                                 pindex[pfs[k].fixturedef],
                                                 pfs[k].cached))),
                 pfs, pindex, k + 1)

(***************************************************************************)
(* Node: __new__, __init__, __eq__                                         *)
(***************************************************************************)
ZeroSummary ==
    [k \in {"passed", "skipped", "failed", "error", "xfailed", "xpassed"} |-> 0]

\* tuple equality of two params tuples: element by element
ParamsEq(pfsis, p, q) ==
    /\ Len(p) = Len(q)
    /\ \A i \in 1..Len(p) : p[i] = q[i] \/ PfsiEq(pfsis[p[i]], pfsis[q[i]])

\* parent_node == other.parent_node: None equals only None, two nodes are
\* compared by Node.__eq__, which compares their parents in turn
RECURSIVE NodeRefEq(_, _, _, _)
NodeRefEq(nodes, pfsis, p, q) ==
    IF p = 0 \/ q = 0 THEN p = q
    ELSE /\ nodes[p].name = nodes[q].name
         /\ ParamsEq(pfsis, nodes[p].params, nodes[q].params)
         /\ nodes[p].namespace = nodes[q].namespace
         /\ NodeRefEq(nodes, pfsis, nodes[p].parent_node, nodes[q].parent_node)

\* (mutant) __eq__ without the comparison of the parents
NodeEqWithoutParent(nodes, pfsis, a, b) ==
    /\ a.name = b.name
    /\ ParamsEq(pfsis, a.params, b.params)
    /\ a.namespace = b.namespace

\* Node.__eq__(a, b) for two Node objects
NodeEq(nodes, pfsis, a, b) ==
    /\ a.name = b.name
    /\ ParamsEq(pfsis, a.params, b.params)
    /\ a.namespace = b.namespace
    /\ NodeRefEq(nodes, pfsis, a.parent_node, b.parent_node)

\* Node.__init__ on a fresh object
NodeInit(name, namespace, parent, params) ==
    [name |-> name,
     namespace |-> namespace,
     params |-> params,
     children |-> <<>>,
     extra |-> <<>>,
     test_results |-> <<>>,
     summary |-> ZeroSummary,
     duration |-> 0,
     parent_node |-> parent]

\* (mutant) __new__ without the lookup: every call registers a new object
NodeFoundNever(nodes, temp, hits) ==
    [nodes |-> Append(nodes, temp), id |-> Len(nodes) + 1]

\* the first of the instances that equal temp: list.index
NodeFound(nodes, temp, hits) ==
    IF hits = {}
    THEN [nodes |-> Append(nodes, temp), id |-> Len(nodes) + 1]
    ELSE [nodes |-> nodes, id |-> CHOOSE i \in hits : \A j \in hits : i <= j]

\* (mutant) __init__ without the guard: it assigns the fields again
NodeInitUnguarded(nodes, id, temp, alread_initialized) ==
    [nodes EXCEPT ![id] = temp]

\* Node.__init__ on the registered object id, with the arguments temp was
\* made from: it returns at once when _alread_initialized is set
NodeInitOn(nodes, id, temp, alread_initialized) ==
    IF alread_initialized THEN nodes ELSE [nodes EXCEPT ![id] = temp]

\* the __init__ Python runs on the object __new__ returned.  Every
\* registered object was temp once and went through __init__ in __new__,
\* which set its _alread_initialized.
NodeReturned(found, temp) ==
    [found EXCEPT !.nodes = NodeInitOn(@, found.id, temp, TRUE)]

\* Node(name, namespace, parent, params) with temp the object __new__ makes:
\* the registry after the call and the instance returned
NodeNew(nodes, pfsis, temp) ==
    NodeReturned(
        NodeFound(nodes, temp, {i \in 1..Len(nodes) : NodeEq(nodes, pfsis, nodes[i], temp)}),
        temp)

\* d[k] = d.get(k, 0) + 1
Increment(d, k) ==
    [x \in DOMAIN d \cup {k} |->
        IF x = k THEN (IF k \in DOMAIN d THEN d[k] ELSE 0) + 1 ELSE d[x]]

\* outcome.lower()
Lower(outcome) ==
    CASE outcome = "Passed" -> "passed"
      [] outcome = "Skipped" -> "skipped"
      [] outcome = "Failed" -> "failed"
      [] outcome = "Error" -> "error"
      [] outcome = "XFailed" -> "xfailed"
      [] outcome = "XPassed" -> "xpassed"
      [] outcome = "Rerun" -> "rerun"

(***************************************************************************)
(* _appendrow, lines 602-627: the loop over the links of simple_chain.     *)
(* st is [nodes, pfsis, roots, chain]: the two registries,                 *)
(* results_tree["results"] and node_chain.                                 *)
(***************************************************************************)
\* node in a list of nodes (list membership is by __eq__)
NodeIn(nodes, pfsis, id, list) ==
    \E i \in 1..Len(list) : list[i] = id \/ NodeRefEq(nodes, pfsis, list[i], id)

\* the leaf the last link becomes, appended to prev_node.test_results
LinkTest(st, link, prev_node, params, outcome, report) ==
    [st EXCEPT !.nodes[prev_node].test_results =
                    Append(@, [name |-> link.name,
                               nodeid |-> link.nodeid,
                               outcome |-> outcome,
                               duration |-> report.duration,
                               params |-> params,
                               extra |-> <<>>]),
               !.chain = Append(@, 0)]

\* (mutant) the node joins the list whether it is there or not
LinkedAgain(nodes, pfsis, roots, node, prev_node) ==
    IF prev_node = 0
    THEN [nodes |-> nodes, roots |-> Append(roots, node)]
    ELSE [nodes |-> [nodes EXCEPT ![prev_node].children = Append(@, node)],
          roots |-> roots]

\* lines 620-623: the node joins the roots or its parent's children when it
\* is not there yet
Linked(nodes, pfsis, roots, node, prev_node) ==
    IF prev_node = 0
    THEN [nodes |-> nodes,
          roots |-> IF NodeIn(nodes, pfsis, node, roots) THEN roots ELSE Append(roots, node)]
    ELSE [nodes |-> IF NodeIn(nodes, pfsis, node, nodes[prev_node].children) THEN nodes
                    ELSE [nodes EXCEPT ![prev_node].children = Append(@, node)],
          roots |-> roots]

\* (mutant) the count is read under the outcome as given, not lowered: the
\* key is never there and every count restarts at 1
CountedUnlowered(nodes, node, outcome, report) ==
    [nodes EXCEPT ![node].summary =
                        [x \in DOMAIN @ \cup {Lower(outcome)} |->
                            IF x = Lower(outcome) THEN 1 ELSE @[x]],
                  ![node].duration = @ + report.duration]

\* lines 625-626: the node counts the result
Counted(nodes, node, outcome, report) ==
    [nodes EXCEPT ![node].summary = Increment(@, Lower(outcome)),
                  ![node].duration = @ + report.duration]

Joined(st, linked, node, outcome, report) ==
    [st EXCEPT !.nodes = Counted(linked.nodes, node, outcome, report),
               !.roots = linked.roots,
               !.chain = Append(@, node)]

Made(st, made, prev_node, outcome, report) ==
    Joined(st, Linked(made.nodes, st.pfsis, st.roots, made.id, prev_node),
           made.id, outcome, report)

\* the Node another link becomes: interned, linked and counted
LinkNode(st, link, prev_node, params, outcome, report) ==
    Made(st,
         NodeNew(st.nodes, st.pfsis,
                 NodeInit(link.name,
                          IF prev_node = 0 THEN link.name
                          ELSE st.nodes[prev_node].namespace \o <<".">> \o link.name,
                          prev_node, params)),
         prev_node, outcome, report)

\* prev_node: None before the first link, then the node last appended to
\* node_chain
PrevNode(st) == IF st.chain = <<>> THEN 0 ELSE st.chain[Len(st.chain)]

\* the loop from the i-th link on, params being the instances made for
\* that link; exc is "AttributeError" when the test is the only link
\* (prev_node is None and has no test_results)
RECURSIVE LinkFrom(_, _, _, _, _, _)
LinkStep(st, simple_chain, i, pindex, outcome, report, params) ==
    IF i = Len(simple_chain)
    THEN IF PrevNode(st) = 0
         THEN [exc |-> "AttributeError", st |-> [st EXCEPT !.pfsis = params.instances]]
         ELSE [exc |-> "none",
               st |-> LinkTest([st EXCEPT !.pfsis = params.instances], simple_chain[i],
                               PrevNode(st), params.ids, outcome, report)]
    ELSE LinkFrom(LinkNode([st EXCEPT !.pfsis = params.instances], simple_chain[i],
                           PrevNode(st), params.ids, outcome, report),
                  simple_chain, i + 1, pindex, outcome, report)

LinkFrom(st, simple_chain, i, pindex, outcome, report) ==
    IF i > Len(simple_chain) THEN [exc |-> "none", st |-> st]
    ELSE LinkStep(st, simple_chain, i, pindex, outcome, report,
                  PfsiAll([instances |-> st.pfsis, ids |-> <<>>],
                          simple_chain[i].params, pindex, 1))

(***************************************************************************)
(* HTMLReport.TestResult and the sorted insert of lines 634-643            *)
(***************************************************************************)
\* TestResult.__lt__
OutcomeOrder == <<"Error", "Failed", "Rerun", "XFailed", "XPassed", "Skipped", "Passed">>

RowLt(a, b) == IndexOf(OutcomeOrder, a.outcome) < IndexOf(OutcomeOrder, b.outcome)

\* bisect.bisect_right(rows, row) as a 1-based position: rows is kept sorted
\* by __lt__, so it is the first position whose row is greater
BisectRight(rows, row) ==
    IF \E i \in 1..Len(rows) : RowLt(row, rows[i])
    THEN CHOOSE i \in 1..Len(rows) :
            RowLt(row, rows[i]) /\ \A j \in 1..(i - 1) : ~RowLt(row, rows[j])
    ELSE Len(rows) + 1

TestResultRow(outcome, report) ==
    [outcome |-> outcome,
     test_id |-> IF report.when # "call"
                 THEN report.nodeid \o <<"::", report.when>> ELSE report.nodeid,
     time |-> report.duration]

InsertRow(rows, row) ==
    LET index == BisectRight(rows, row)
    IN  SubSeq(rows, 1, index - 1) \o <<row>> \o SubSeq(rows, index, Len(rows))

(***************************************************************************)
(* HTMLReport._appendrow                                                   *)
(*                                                                         *)
(* A report is [kind, outcome, when, wasxfail, duration, nodeid, item]:    *)
(* kind "runtest" for a TestReport, whose user_properties lead with the    *)
(* item, "collect" for a CollectReport, which has no user_properties.  An  *)
(* item is [nodeid, module_name, fixturedefs, has_callspec, indices].      *)
(* The operator gives the exception the call ends with and the state it    *)
(* leaves.                                                                 *)
(***************************************************************************)
\* the loop of lines 494-500 up to its n-th fixture: fix.param_index is set
SetParamIndex(pindex, item, n) ==
    LET set == {item.fixturedefs[k].fid : k \in 1..n}
        at(f) == CHOOSE k \in 1..n : item.fixturedefs[k].fid = f
        get(k) == IF item.fixturedefs[k].argname \in DOMAIN item.indices
                  THEN item.indices[item.fixturedefs[k].argname] ELSE 0
    IN  [f \in DOMAIN pindex \cup set |->
            IF f \in set THEN get(at(f)) ELSE pindex[f]]

\* the first fixture whose dependancies cannot be computed, 0 when none
FirstOverflow(item) ==
    LET bad == {k \in 1..Len(item.fixturedefs) :
                    RecursionOverflows(item.fixturedefs[k].argname, item.fixturedefs, 1)}
    IN  IF bad = {} THEN 0 ELSE CHOOSE k \in bad : \A j \in bad : k <= j

\* lines 547-600: simple_chain with every parameterized fixture appended
Placement(item, param_fixtures) ==
    PlaceFrom(SortedByScopenum(param_fixtures), 1, get_simplified_chain(item.nodeid), item)

\* a call that raised before the links were walked
Abort(exc, S, param_fixtures, simple_chain) ==
    [exc |-> exc, state |-> S, param_fixtures |-> param_fixtures,
     simple_chain |-> simple_chain, node_chain |-> <<>>]

\* (mutant) the session summary is kept under the outcome as given
RecordedUnlowered(S, outcome, report) ==
    [S EXCEPT !.results_tree.summary = Increment(@, outcome),
              !.results = InsertRow(@, TestResultRow(outcome, report))]

\* line 627 and lines 634-643
Recorded(S, outcome, report) ==
    [S EXCEPT !.results_tree.summary = Increment(@, Lower(outcome)),
              !.results = InsertRow(@, TestResultRow(outcome, report))]

Walked(S, outcome, report, param_fixtures, simple_chain, linked) ==
    [exc |-> linked.exc,
     state |-> IF linked.exc = "none"
               THEN Recorded([S EXCEPT !.node_instances = linked.st.nodes,
                                       !.pfsi_instances = linked.st.pfsis,
                                       !.results_tree.results = linked.st.roots],
                             outcome, report)
               ELSE [S EXCEPT !.node_instances = linked.st.nodes,
                              !.pfsi_instances = linked.st.pfsis,
                              !.results_tree.results = linked.st.roots],
     param_fixtures |-> param_fixtures,
     simple_chain |-> simple_chain,
     node_chain |-> linked.st.chain]

Placed(S, outcome, report, param_fixtures, placed) ==
    IF placed.exc # "none" THEN Abort(placed.exc, S, param_fixtures, placed.chain)
    ELSE Walked(S, outcome, report, param_fixtures, placed.chain,
                LinkFrom([nodes |-> S.node_instances, pfsis |-> S.pfsi_instances,
                          roots |-> S.results_tree.results, chain |-> <<>>],
                         placed.chain, 1, S.param_index, outcome, report))

Cascaded(S, outcome, report, param_fixtures) ==
    Placed(S, outcome, report, param_fixtures, Placement(report.item, param_fixtures))

\* callspec.indices.get(fix.argname, 0)
IndexGot(item, fix) ==
    IF fix.argname \in DOMAIN item.indices THEN item.indices[fix.argname] ELSE 0

\* lines 506-519 for one fixture: the exception the computation of param_id
\* ends with.  Only the TypeError of ids[...] on a callable is caught;
\* what the callable raises in the handler is not.
ParamIdRaised(fix, index) ==
    IF Len(fix.params) > 0 /\ fix.cached /\ Truthy(fix.ids)
    THEN IF fix.ids.kind = "list"
         THEN IF index < Len(fix.ids.items) THEN "none" ELSE "IndexError"
         ELSE fix.ids.raises
    ELSE "none"

\* the loop of lines 504-532: the first exception it ends with
IdsRaised(item) ==
    IF \A k \in 1..Len(item.fixturedefs) :
            ParamIdRaised(item.fixturedefs[k], IndexGot(item, item.fixturedefs[k])) = "none"
    THEN "none"
    ELSE ParamIdRaised(
            item.fixturedefs[
                CHOOSE k \in 1..Len(item.fixturedefs) :
                    /\ ParamIdRaised(item.fixturedefs[k],
                                     IndexGot(item, item.fixturedefs[k])) # "none"
                    /\ \A j \in 1..(k - 1) :
                            ParamIdRaised(item.fixturedefs[j],
                                          IndexGot(item, item.fixturedefs[j])) = "none"],
            0)

\* param_fixtures is built, or the loop that builds it raises exc
Identified(S, outcome, report, exc) ==
    IF exc # "none" THEN Abort(exc, S, <<>>, <<>>)
    ELSE Cascaded(S, outcome, report, CascadeAutouse(report.item.fixturedefs))

\* (mutant) the overflow of the recursion is swallowed: the call returns
\* after the fixture whose dependancies it could not compute
ResolvedSilently(S, outcome, report, overflow) ==
    IF overflow # 0
    THEN Abort("none",
               [S EXCEPT !.param_index = SetParamIndex(@, report.item, overflow)],
               <<>>, <<>>)
    ELSE Identified([S EXCEPT !.param_index =
                                  SetParamIndex(@, report.item, Len(report.item.fixturedefs))],
                    outcome, report, IdsRaised(report.item))

Resolved(S, outcome, report, overflow) ==
    IF overflow # 0
    THEN Abort("RecursionError",
               [S EXCEPT !.param_index = SetParamIndex(@, report.item, overflow)],
               <<>>, <<>>)
    ELSE Identified([S EXCEPT !.param_index =
                                  SetParamIndex(@, report.item, Len(report.item.fixturedefs))],
                    outcome, report, IdsRaised(report.item))

appendrow(S, outcome, report) ==
    IF report.kind # "runtest" THEN Abort("AttributeError", S, <<>>, <<>>)
    ELSE IF Len(report.item.fixturedefs) > 0 /\ ~report.item.has_callspec
    THEN Abort("AttributeError", S, <<>>, <<>>)
    ELSE Resolved(S, outcome, report, FirstOverflow(report.item))

(***************************************************************************)
(* append_passed, append_failed, append_skipped, append_other and the two  *)
(* report hooks.  Each gives what _appendrow gave and the outcome it was   *)
(* called with, "none" when it was not called.  The counter self.rerun is  *)
(* <<>> for None and <<n>> for the number n.                               *)
(***************************************************************************)
Count(S, counter) == [S EXCEPT !.counters[counter] = @ + 1]

Called(r, outcome) ==
    [exc |-> r.exc, state |-> r.state, outcome |-> outcome,
     param_fixtures |-> r.param_fixtures,
     simple_chain |-> r.simple_chain, node_chain |-> r.node_chain]

Appended(S, counter, outcome, report) ==
    Called(appendrow(Count(S, counter), outcome, report), outcome)

\* a hook call that ended with exc before _appendrow was called
NotAppended(S, exc) ==
    [exc |-> exc, state |-> S, outcome |-> "none", param_fixtures |-> <<>>,
     simple_chain |-> <<>>, node_chain |-> <<>>]

Ignored(S) == NotAppended(S, "none")

\* (mutant) a passed report counts in whatever phase it was made
append_passed_any_phase(S, report) ==
    IF report.wasxfail
    THEN Appended(S, "xpassed", "XPassed", report)
    ELSE Appended(S, "passed", "Passed", report)

append_passed(S, report) ==
    IF report.when = "call"
    THEN IF report.wasxfail
         THEN Appended(S, "xpassed", "XPassed", report)
         ELSE Appended(S, "passed", "Passed", report)
    ELSE Ignored(S)

\* (mutant) a failure of the call phase is Failed, marker or not
append_failed_unmarked(S, report) ==
    IF report.kind = "runtest" /\ report.when = "call"
    THEN Appended(S, "failed", "Failed", report)
    ELSE Appended(S, "errors", "Error", report)

\* getattr(report, 'when', None): a CollectReport has no when
append_failed(S, report) ==
    IF report.kind = "runtest" /\ report.when = "call"
    THEN IF report.wasxfail
         THEN Appended(S, "xpassed", "XPassed", report)
         ELSE Appended(S, "failed", "Failed", report)
    ELSE Appended(S, "errors", "Error", report)

append_skipped(S, report) ==
    IF report.wasxfail
    THEN Appended(S, "xfailed", "XFailed", report)
    ELSE Appended(S, "skipped", "Skipped", report)

append_other(S, report) ==
    IF S.rerun = <<>> THEN NotAppended(S, "TypeError")
    ELSE Called(appendrow([S EXCEPT !.rerun = <<@[1] + 1>>], "Rerun", report), "Rerun")

pytest_runtest_logreport(S, report) ==
    IF report.outcome = "passed" THEN append_passed(S, report)
    ELSE IF report.outcome = "failed" THEN append_failed(S, report)
    ELSE IF report.outcome = "skipped" THEN append_skipped(S, report)
    ELSE append_other(S, report)

pytest_collectreport(S, report) ==
    IF report.outcome = "failed" THEN append_failed(S, report) ELSE Ignored(S)

\* (mutant) every outcome counter is part of the total
numtests_of_all(S) ==
    S.counters["passed"] + S.counters["failed"] + S.counters["xpassed"]
        + S.counters["xfailed"] + S.counters["skipped"] + S.counters["errors"]

\* _generate_report, line 832: the total it writes to suite_info
numtests(S) ==
    S.counters["passed"] + S.counters["failed"] + S.counters["xpassed"]
        + S.counters["xfailed"]

\* results_tree_dict["results"][0]["name"], lines 887 and 944: the name of
\* the first root, IndexError when the list of roots is empty
project_name(S) ==
    IF S.results_tree.results = <<>> THEN [exc |-> "IndexError", name |-> <<>>]
    ELSE [exc |-> "none", name |-> S.node_instances[S.results_tree.results[1]].name]

\* pytest_sessionfinish: _generate_report, which ends with the document
\* or with the exception of line 887
generate_report(S) ==
    [exc |-> project_name(S).exc,
     numtests |-> numtests(S),
     project_name |-> project_name(S).name,
     roots |-> IF project_name(S).exc = "none" THEN S.results_tree.results ELSE <<>>]

(***************************************************************************)
(* The host: the tests it runs, the fixtures it activates on them and the  *)
(* reports it sends.                                                       *)
(***************************************************************************)
\* pkg/test_mod.py::TestC::()::test_m and its module's __name__, which is
\* as deep as the run of __init__.py directories over the file: shallower
\* than the path when a directory is no package, deeper when the root
\* directory lies inside a package
ClassTest ==
    [nodeid |-> <<"pkg", "/", "test_mod.py", "::", "TestC", "::", "()", "::", "test_m">>,
     module_names |-> {<<"test_mod">>, <<"pkg", ".", "test_mod">>,
                       <<"outer", ".", "pkg", ".", "test_mod">>}]

FunctionTest ==
    [nodeid |-> <<"pkg", "/", "test_mod.py", "::", "test_f">>,
     module_names |-> {<<"test_mod">>, <<"pkg", ".", "test_mod">>,
                       <<"outer", ".", "pkg", ".", "test_mod">>}]

\* a module in the root directory
TopTest ==
    [nodeid |-> <<"test_top.py", "::", "test_g">>,
     module_names |-> {<<"test_top">>, <<"outer", ".", "test_top">>,
                       <<"top", ".", "outer", ".", "test_top">>}]

\* a method of a class, as later pytest versions name it (no "()")
MethodTest ==
    [nodeid |-> <<"tests", "/", "test_x.py", "::", "TestC", "::", "test_m">>,
     module_names |-> {<<"test_x">>, <<"tests", ".", "test_x">>}]

\* the places a fixture that is visible to nodeid can be declared in: the
\* root (""), or what precedes one of the separators of nodeid (a
\* directory's conftest, the module, a class or its instance)
VisibleBaseids(nodeid) ==
    {<<>>} \cup {SubSeq(nodeid, 1, i - 1) :
                    i \in {j \in 1..Len(nodeid) : nodeid[j] \in {"/", "::"}}}

Digit == <<"0", "1", "2">>

\* the "[...]" suffix of a parameterized test's id: the chosen parameters
RECURSIVE IdSuffix(_, _, _)
IdSuffix(fixturedefs, indices, k) ==
    IF k > Len(fixturedefs) THEN <<>>
    ELSE LET rest == IdSuffix(fixturedefs, indices, k + 1)
         IN  IF Len(fixturedefs[k].params) = 0 THEN rest
             ELSE <<Digit[indices[fixturedefs[k].argname] + 1]>> \o
                  (IF rest = <<>> THEN <<>> ELSE <<"-">> \o rest)

Parameterized(fixturedefs) ==
    {fixturedefs[k].argname : k \in {j \in 1..Len(fixturedefs) : Len(fixturedefs[j].params) > 0}}

\* the item of a test: it has a callspec exactly when something is
\* parameterized, and then its id ends with the parameter suffix
MakeItem(test, module_name, fixturedefs, indices) ==
    LET has_callspec == Parameterized(fixturedefs) # {}
    IN  [nodeid |-> IF has_callspec
                    THEN test.nodeid \o <<"[">> \o IdSuffix(fixturedefs, indices, 1) \o <<"]">>
                    ELSE test.nodeid,
         module_name |-> module_name,
         fixturedefs |-> fixturedefs,
         has_callspec |-> has_callspec,
         indices |-> indices]

Indices(fixturedefs, i) == [n \in Parameterized(fixturedefs) |-> i]

TestReport(item, outcome, when, wasxfail, duration) ==
    [kind |-> "runtest", outcome |-> outcome, when |-> when, wasxfail |-> wasxfail,
     duration |-> duration, nodeid |-> item.nodeid, item |-> item]

\* a CollectReport of a collector: no when, no user_properties, no item
CollectReport(nodeid, outcome) ==
    [kind |-> "collect", outcome |-> outcome, when |-> "collect", wasxfail |-> FALSE,
     duration |-> 0, nodeid |-> nodeid,
     item |-> [nodeid |-> nodeid, module_name |-> <<>>, fixturedefs |-> <<>>,
               has_callspec |-> FALSE, indices |-> <<>>]]

CollectReports ==
    {CollectReport(<<"pkg", "/", "test_mod.py">>, outcome) : outcome \in {"passed", "failed"}}

(***************************************************************************)
(* The session of the specification Spec: two live fixture definitions on  *)
(* the tests of pkg/test_mod.py and a plain test in the root directory.    *)
(***************************************************************************)
\* module scoped, autouse, parameterized, declared in pkg/test_mod.py
ModuleFixture ==
    [fid |-> 1, argname |-> "db", scopenum |-> MODULE_SCOPE, marked |-> TRUE,
     autouse |-> TRUE, baseid |-> <<"pkg", "/", "test_mod.py">>,
     params |-> <<"p0", "p1">>, argnames |-> <<>>, ids |-> NoIds, cached |-> TRUE]

\* the pseudo fixture of @pytest.mark.parametrize("x", ...)
DirectParam ==
    [fid |-> 2, argname |-> "x", scopenum |-> FUNCTION_SCOPE, marked |-> FALSE,
     autouse |-> FALSE, baseid |-> <<>>,
     params |-> <<"p0", "p1">>, argnames |-> <<>>, ids |-> NoIds, cached |-> TRUE]

\* a plain fixture: nothing parameterized, so no callspec
PlainFixture ==
    [fid |-> 3, argname |-> "tmp", scopenum |-> FUNCTION_SCOPE, marked |-> TRUE,
     autouse |-> FALSE, baseid |-> <<>>, params |-> <<>>, argnames |-> <<"request">>,
     ids |-> NoIds, cached |-> TRUE]

SessionItems ==
    {MakeItem(ClassTest, <<"pkg", ".", "test_mod">>, <<ModuleFixture>>,
              Indices(<<ModuleFixture>>, i)) : i \in 0..1}
    \cup {MakeItem(FunctionTest, <<"pkg", ".", "test_mod">>, <<ModuleFixture, DirectParam>>,
                   Indices(<<ModuleFixture, DirectParam>>, i)) : i \in 0..1}
    \cup {MakeItem(TopTest, <<"test_top">>, <<>>, <<>>),
          MakeItem(TopTest, <<"test_top">>, <<PlainFixture>>, <<>>)}

\* one report for every way pytest_runtest_logreport can go
SessionKinds ==
    {<<"passed", "call", FALSE>>, <<"passed", "call", TRUE>>, <<"passed", "setup", FALSE>>,
     <<"failed", "call", FALSE>>, <<"failed", "teardown", FALSE>>,
     <<"skipped", "setup", FALSE>>, <<"skipped", "call", TRUE>>,
     <<"rerun", "call", FALSE>>}

SessionReports ==
    {TestReport(item, k[1], k[2], k[3], 1) : item \in SessionItems, k \in SessionKinds}

(***************************************************************************)
(* The state machine.                                                      *)
(***************************************************************************)
\* the program's state as one record, for the operators above
State ==
    [node_instances |-> node_instances,
     pfsi_instances |-> pfsi_instances,
     results_tree |-> results_tree,
     results |-> results,
     counters |-> counters,
     rerun |-> rerun,
     param_index |-> param_index]

\* HTMLReport.__init__ in a fresh process; the rerunfailures plugin is
\* there or not
Init ==
    /\ node_instances = <<>>
    /\ pfsi_instances = <<>>
    /\ results_tree = [summary |-> ZeroSummary, results |-> <<>>]
    /\ results = <<>>
    /\ counters = [k \in {"errors", "failed", "passed", "skipped", "xfailed", "xpassed"} |-> 0]
    /\ rerun \in {<<>>, <<0>>}
    /\ param_index = <<>>
    /\ raised = "none"
    /\ calls = <<>>

\* a hook call that went as r says
Handle(report, r) ==
    /\ node_instances' = r.state.node_instances
    /\ pfsi_instances' = r.state.pfsi_instances
    /\ results_tree' = r.state.results_tree
    /\ results' = r.state.results
    /\ counters' = r.state.counters
    /\ rerun' = r.state.rerun
    /\ param_index' = r.state.param_index
    /\ raised' = r.exc
    /\ calls' = Append(calls, [report |-> report, outcome |-> r.outcome, exc |-> r.exc,
                               param_fixtures |-> r.param_fixtures,
                               simple_chain |-> r.simple_chain,
                               node_chain |-> r.node_chain])

\* the host calls pytest_runtest_logreport with one of reports
Logreport(reports) ==
    \E report \in reports : Handle(report, pytest_runtest_logreport(State, report))

\* the host calls pytest_collectreport
Collected ==
    \E report \in CollectReports : Handle(report, pytest_collectreport(State, report))

RuntestLogreport == Len(calls) < MaxReports /\ Logreport(SessionReports)

Collectreport == Len(calls) < MaxReports /\ Collected

Next == RuntestLogreport \/ Collectreport

Spec == Init /\ [][Next]_vars

(***************************************************************************)
(* The specification SpecEvent: one hook call on a fresh report, for every *)
(* input of a wide range.                                                  *)
(***************************************************************************)
EventTests == {ClassTest, FunctionTest, TopTest, MethodTest}

\* a parameterized fixture of any scope, declared autouse or not or the
\* pseudo fixture of a direct parametrization, declared anywhere visible
Subjects(test) ==
    {[fid |-> 1, argname |-> "subj", scopenum |-> scopenum, marked |-> au[1],
      autouse |-> au[2], baseid |-> baseid, params |-> <<"p0", "p1">>, argnames |-> <<>>,
      ids |-> NoIds, cached |-> TRUE] :
        scopenum \in {SESSION_SCOPE, MODULE_SCOPE, CLASS_SCOPE, FUNCTION_SCOPE},
        au \in {<<TRUE, TRUE>>, <<TRUE, FALSE>>, <<FALSE, FALSE>>},
        baseid \in VisibleBaseids(test.nodeid)}

\* an autouse fixture that requests the subject
User ==
    [fid |-> 2, argname |-> "user", scopenum |-> FUNCTION_SCOPE, marked |-> TRUE,
     autouse |-> TRUE, baseid |-> <<>>, params |-> <<>>, argnames |-> <<"subj", "request">>,
     ids |-> NoIds, cached |-> TRUE]

\* another parameterized fixture, function scoped
Other ==
    [fid |-> 3, argname |-> "other", scopenum |-> FUNCTION_SCOPE, marked |-> TRUE,
     autouse |-> TRUE, baseid |-> <<>>, params |-> <<"q0", "q1">>, argnames |-> <<>>,
     ids |-> NoIds, cached |-> TRUE]

\* the subject alone, or with one of the two before or after it in the dict
Companies(subject) ==
    {<<subject>>, <<subject, User>>, <<User, subject>>, <<Other, subject>>, <<subject, Other>>}

AttachItems ==
    UNION {{MakeItem(test, module_name, fixturedefs, Indices(fixturedefs, 1)) :
                module_name \in test.module_names,
                fixturedefs \in UNION {Companies(subject) : subject \in Subjects(test)}} :
           test \in EventTests}

\* three fixtures a, b, c that request one another in every way, each
\* declared autouse or not, in every order of the dict
Requests(name) ==
    LET others == {"a", "b", "c"} \ {name}
        two == CHOOSE pair \in others \X others : pair[1] # pair[2]
    IN  {<<>>, <<two[1]>>, <<two[2]>>, <<two[1], two[2]>>}

Graphs ==
    {<<[fid |-> 1, argname |-> "a", scopenum |-> CLASS_SCOPE, marked |-> TRUE,
        autouse |-> au[1], baseid |-> <<>>, params |-> <<"p0", "p1">>,
        argnames |-> <<"request">> \o ra, ids |-> NoIds, cached |-> TRUE],
       [fid |-> 2, argname |-> "b", scopenum |-> MODULE_SCOPE, marked |-> TRUE,
        autouse |-> au[2], baseid |-> <<>>, params |-> <<"p0", "p1">>, argnames |-> rb,
        ids |-> NoIds, cached |-> TRUE],
       [fid |-> 3, argname |-> "c", scopenum |-> SESSION_SCOPE, marked |-> TRUE,
        autouse |-> au[3], baseid |-> <<>>, params |-> <<>>, argnames |-> rc,
        ids |-> NoIds, cached |-> TRUE]>> :
        au \in BOOLEAN \X BOOLEAN \X BOOLEAN,
        ra \in Requests("a"), rb \in Requests("b"), rc \in Requests("c")}

Acyclic(fixturedefs) ==
    \A k \in 1..Len(fixturedefs) :
        ~RecursionOverflows(fixturedefs[k].argname, fixturedefs, 1)

Orders(n) == {f \in [1..n -> 1..n] : \A i, j \in 1..n : f[i] = f[j] => i = j}

Reordered(fixturedefs, order) == [i \in 1..Len(fixturedefs) |-> fixturedefs[order[i]]]

CascadeItems ==
    {MakeItem(FunctionTest, <<"pkg", ".", "test_mod">>, Reordered(g, order),
              Indices(g, 0)) :
        g \in {x \in Graphs : Acyclic(x)}, order \in Orders(3)}

\* a fixture that names itself as an argument
SelfFixture ==
    [fid |-> 1, argname |-> "a", scopenum |-> MODULE_SCOPE, marked |-> TRUE,
     autouse |-> TRUE, baseid |-> <<>>, params |-> <<"p0", "p1">>, argnames |-> <<"a">>,
     ids |-> NoIds, cached |-> TRUE]

\* the graphs in which a fixture requests itself, directly or through
\* others
CyclicItems ==
    {MakeItem(FunctionTest, <<"pkg", ".", "test_mod">>, g, Indices(g, 0)) :
        g \in {x \in Graphs : ~Acyclic(x)} \cup {<<SelfFixture>>}}

\* the ids a parameterized fixture can come with: a full list, a list
\* shorter than params, a callable that returns an id and callables that
\* raise
IdsKinds ==
    {[kind |-> "list", items |-> <<"i0", "i1">>, raises |-> "none"],
     [kind |-> "list", items |-> <<"i0">>, raises |-> "none"],
     [kind |-> "callable", items |-> <<>>, raises |-> "none"],
     [kind |-> "callable", items |-> <<>>, raises |-> "TypeError"],
     [kind |-> "callable", items |-> <<>>, raises |-> "ValueError"]}

\* a method with a function scoped fixture of two parameters that has ids,
\* before or after the fixture was set up
IdsItems ==
    {MakeItem(ClassTest, <<"pkg", ".", "test_mod">>,
              <<[Other EXCEPT !.ids = ids, !.cached = cached]>>,
              Indices(<<Other>>, i)) :
        ids \in IdsKinds, cached \in BOOLEAN, i \in 0..1}

\* every report of a test phase: outcome, phase, marker, duration
KindReports ==
    {TestReport(item, outcome, when, wasxfail, duration) :
        item \in {MakeItem(TopTest, <<"test_top">>, <<>>, <<>>),
                  MakeItem(ClassTest, <<"pkg", ".", "test_mod">>, <<DirectParam>>,
                           Indices(<<DirectParam>>, 1))},
        outcome \in {"passed", "failed", "skipped", "rerun"},
        when \in {"setup", "call", "teardown"},
        wasxfail \in BOOLEAN,
        duration \in {0, 2}}

\* tests/test_x.py::TestC::test_m[1]: an id with a parameter suffix on an
\* item that has a callspec and no fixture definitions
ScenarioItem ==
    [nodeid |-> MethodTest.nodeid \o <<"[", "1", "]">>,
     module_name |-> <<"test_x">>,
     fixturedefs |-> <<>>,
     has_callspec |-> TRUE,
     indices |-> <<>>]

\* an item collected right under the session: its id is its name, one
\* segment without "/" or "::"
SoloItem ==
    [nodeid |-> <<"test_solo">>,
     module_name |-> <<"test_solo">>,
     fixturedefs |-> <<>>,
     has_callspec |-> FALSE,
     indices |-> <<>>]

EventReports ==
    {TestReport(item, "passed", "call", FALSE, 1) :
        item \in AttachItems \cup CascadeItems \cup CyclicItems \cup IdsItems
                    \cup {ScenarioItem, SoloItem}}
    \cup KindReports

FirstLogreport == calls = <<>> /\ Logreport(EventReports)

FirstCollectreport == calls = <<>> /\ Collected

NextEvent == FirstLogreport \/ FirstCollectreport

SpecEvent == Init /\ [][NextEvent]_vars

(***************************************************************************)
(* The specification SpecOrder: the session of Spec with three kinds of    *)
(* report, for the comparison of the orders the reports can come in.       *)
(***************************************************************************)
OrderKinds ==
    {<<"passed", "call", FALSE>>, <<"failed", "setup", FALSE>>, <<"rerun", "call", FALSE>>}

\* another test of pkg/test_mod.py with a direct parametrization of the
\* same argument: its pseudo fixture is another object with the same
\* argname, base id and params
TwinTest ==
    [nodeid |-> <<"pkg", "/", "test_mod.py", "::", "test_h">>,
     module_names |-> {<<"pkg", ".", "test_mod">>}]

DirectParamTwin == [DirectParam EXCEPT !.fid = 4]

\* the module's fixture at a time it holds no value: not set up yet, or
\* finished
ModuleFixtureFinished == [ModuleFixture EXCEPT !.cached = FALSE]

OrderItems ==
    SessionItems
    \cup {MakeItem(TwinTest, <<"pkg", ".", "test_mod">>, <<ModuleFixture, DirectParamTwin>>,
                   Indices(<<ModuleFixture, DirectParamTwin>>, 1)),
          MakeItem(ClassTest, <<"pkg", ".", "test_mod">>, <<ModuleFixtureFinished>>,
                   Indices(<<ModuleFixtureFinished>>, 1))}

OrderReports ==
    {TestReport(item, k[1], k[2], k[3], 1) : item \in OrderItems, k \in OrderKinds}

OrderLogreport == Len(calls) < MaxReports /\ Logreport(OrderReports)

OrderCollectreport == Len(calls) < MaxReports /\ Collected

NextOrder == OrderLogreport \/ OrderCollectreport

SpecOrder == Init /\ [][NextOrder]_vars

(***************************************************************************)
(* The specification SpecProcess: one process in which pytest runs more    *)
(* than once, each run with the HTMLReport pytest_configure makes for it.  *)
(* The classes, and with them the two registries, live as long as the      *)
(* process.  The fixture definitions of a run are objects of that run, so  *)
(* the tests here have none.                                               *)
(***************************************************************************)
ProcessItems ==
    {MakeItem(test, <<"pkg", ".", "test_mod">>, <<>>, <<>>) :
        test \in {ClassTest, FunctionTest, TwinTest}}

ProcessKinds ==
    {<<"passed", "call", FALSE>>, <<"failed", "call", FALSE>>, <<"skipped", "setup", FALSE>>}

ProcessReports ==
    {TestReport(item, k[1], k[2], k[3], 1) : item \in ProcessItems, k \in ProcessKinds}

\* what calls keeps of the construction of a report
Construction ==
    [report |-> [kind |-> "init"], outcome |-> "none", exc |-> "none",
     param_fixtures |-> <<>>, simple_chain |-> <<>>, node_chain |-> <<>>]

\* the reports constructed after the first, and the hook calls
Constructions == {c \in 1..Len(calls) : calls[c].report.kind = "init"}

HookCalls == {c \in 1..Len(calls) : calls[c].report.kind # "init"}

\* pytest_configure of another run: HTMLReport.__init__ on a new object,
\* under the same plugins
Constructed ==
    /\ Cardinality(Constructions) < MaxRuns - 1
    /\ results_tree' = [summary |-> ZeroSummary, results |-> <<>>]
    /\ results' = <<>>
    /\ counters' = [k \in DOMAIN counters |-> 0]
    /\ rerun' = (IF rerun = <<>> THEN <<>> ELSE <<0>>)
    /\ raised' = "none"
    /\ calls' = Append(calls, Construction)
    /\ UNCHANGED <<node_instances, pfsi_instances, param_index>>

ProcessLogreport == Cardinality(HookCalls) < MaxReports /\ Logreport(ProcessReports)

ProcessCollectreport == Cardinality(HookCalls) < MaxReports /\ Collected

NextProcess == ProcessLogreport \/ ProcessCollectreport \/ Constructed

SpecProcess == Init /\ [][NextProcess]_vars

(***************************************************************************)
(* Properties.                                                             *)
(***************************************************************************)
Nodes == 1..Len(node_instances)

OutcomeKeys == {"passed", "skipped", "failed", "error", "xfailed", "xpassed", "rerun"}

\* d.get(k, 0)
Get(d, k) == IF k \in DOMAIN d THEN d[k] ELSE 0

RECURSIVE SumSeq(_)
SumSeq(q) == IF q = <<>> THEN 0 ELSE Head(q) + SumSeq(Tail(q))

\* the hook calls in which _appendrow walked the links
Walks == {c \in 1..Len(calls) : calls[c].node_chain # <<>>}

\* the parameter descriptors of a node: (fixture definition, param_index)
Descriptors(n) ==
    [k \in 1..Len(node_instances[n].params) |-> pfsi_instances[node_instances[n].params[k]]]

\* callspec.indices.get(name, 0)
ChosenIndex(item, name) ==
    IF name \in DOMAIN item.indices THEN item.indices[name] ELSE 0

\* the segment name and the ordered parameter descriptors of the j-th link
\* of the c-th call's chain
LinkKey(c, j) ==
    <<calls[c].simple_chain[j].name,
      [k \in 1..Len(calls[c].simple_chain[j].params) |->
          [fixture_def |-> calls[c].simple_chain[j].params[k].fixturedef,
           param_index |-> ChosenIndex(calls[c].report.item,
                                       calls[c].simple_chain[j].params[k].name)]]>>

\* the links before the test itself
Branches(c) == 1..(Len(calls[c].simple_chain) - 1)

\* C1: two test chains that agree on segment name and ordered parameter
\* descriptors at every index up to i resolved to the same node instance
\* at i, and no two instances have equal name, namespace, params and parent
C1_SameKeySameNode ==
    /\ \A a, b \in Walks : \A i \in Branches(a) \cap Branches(b) :
            (\A j \in 1..i : LinkKey(a, j) = LinkKey(b, j))
                => calls[a].node_chain[i] = calls[b].node_chain[i]
    /\ \A m, n \in Nodes :
            (/\ node_instances[m].name = node_instances[n].name
             /\ node_instances[m].namespace = node_instances[n].namespace
             /\ Descriptors(m) = Descriptors(n)
             /\ node_instances[m].parent_node = node_instances[n].parent_node) => m = n

\* two different tests went through the same parameterized module node
C1_Witness ==
    \E a, b \in Walks :
        /\ calls[a].report.item.nodeid # calls[b].report.item.nodeid
        /\ Len(calls[a].node_chain) > 2 /\ Len(calls[b].node_chain) > 2
        /\ calls[a].node_chain[2] = calls[b].node_chain[2]
        /\ node_instances[calls[a].node_chain[2]].params # <<>>

\* the results attached to node n or below it whose outcome is counted
\* under key
RECURSIVE ResultsUnder(_, _)
ResultsUnder(n, key) ==
    Cardinality({t \in 1..Len(node_instances[n].test_results) :
                    Lower(node_instances[n].test_results[t].outcome) = key})
    + SumSeq([c \in 1..Len(node_instances[n].children) |->
                 ResultsUnder(node_instances[n].children[c], key)])

\* C2: every node's count of an outcome is the number of results with that
\* outcome attached to it or to a descendant
C2_NodeSummaryCountsResults ==
    \A n \in Nodes : \A key \in OutcomeKeys :
        Get(node_instances[n].summary, key) = ResultsUnder(n, key)

\* a node counts two results of one outcome that hang below it, not on it
C2_Witness ==
    \E n \in Nodes : \E key \in OutcomeKeys :
        /\ node_instances[n].test_results = <<>>
        /\ Get(node_instances[n].summary, key) = 2

Roots == results_tree.results

\* C3: the session summary counts, per outcome, the results of the whole
\* tree, and is the sum of the root nodes' counts
C3_SessionSummaryCountsResults ==
    \A key \in OutcomeKeys :
        /\ Get(results_tree.summary, key)
            = SumSeq([r \in 1..Len(Roots) |-> ResultsUnder(Roots[r], key)])
        /\ Get(results_tree.summary, key)
            = SumSeq([r \in 1..Len(Roots) |-> Get(node_instances[Roots[r]].summary, key)])

\* two roots, each with a result of the same outcome
C3_Witness ==
    \E key \in OutcomeKeys :
        /\ Len(Roots) = 2
        /\ Get(results_tree.summary, key) = 2
        /\ \A r \in 1..2 : Get(node_instances[Roots[r]].summary, key) = 1

\* the outcome the classification rules give a report, "none" where they
\* give none
Classified(report) ==
    IF report.outcome = "passed" /\ report.when = "call"
    THEN IF report.wasxfail THEN "XPassed" ELSE "Passed"
    ELSE IF report.outcome = "failed"
    THEN IF report.when \in {"setup", "teardown", "collect"} THEN "Error"
         ELSE IF report.wasxfail THEN "XPassed" ELSE "Failed"
    ELSE IF report.outcome = "skipped"
    THEN IF report.wasxfail THEN "XFailed" ELSE "Skipped"
    ELSE "none"

CounterOf(outcome) ==
    CASE outcome = "Passed" -> "passed"
      [] outcome = "Failed" -> "failed"
      [] outcome = "Error" -> "errors"
      [] outcome = "Skipped" -> "skipped"
      [] outcome = "XFailed" -> "xfailed"
      [] outcome = "XPassed" -> "xpassed"

\* the hook call a step has added
LastCall == calls'[Len(calls')]

Placements == {c \in 1..Len(calls) : calls[c].simple_chain # <<>>}

Completed == {c \in Placements : calls[c].exc = "none"}

\* the parameterized fixtures that are active on the test of the c-th call
Active(c) == {pf \in Range(calls[c].param_fixtures) : pf.parameterized}

\* the indices of the c-th call's chain, and what is attached at one
Indices0(c) == 0..(Len(calls[c].simple_chain) - 1)

AttachedAt(c, index) ==
    IF index \in Indices0(c) THEN Range(calls[c].simple_chain[index + 1].params) ELSE {}

LastIndex(c) == Len(calls[c].simple_chain) - 1

\* every fixture of the c-th call that satisfies P is attached at where(pf)
\* and nowhere else
AttachedOnlyAt(c, P(_), where(_)) ==
    /\ \A index \in Indices0(c) : \A pf \in AttachedAt(c, index) :
            P(pf) => index = where(pf)
    /\ c \in Completed => \A pf \in Active(c) : P(pf) => pf \in AttachedAt(c, where(pf))

FunctionLevel(pf) == pf.scopenum = FUNCTION_SCOPE \/ ~pf.autouse

\* C5: a parameterized fixture that is function scoped, or whose effective
\* autouse flag is false, is attached at the last index of the test's chain
\* and at no other
C5_FunctionLevelAtTest ==
    \A c \in Placements :
        AttachedOnlyAt(c, FunctionLevel, LAMBDA pf : LastIndex(c))

\* a session scoped fixture declared in a class, not autouse, was attached
\* to the test, with a function scoped one that is placed after it
C5_Witness ==
    \E c \in Completed : \E pf, other \in AttachedAt(c, LastIndex(c)) :
        /\ pf.scopenum = SESSION_SCOPE /\ ~pf.autouse
        /\ IndexOf(pf.baseid, "::") > 0
        /\ other.scopenum = FUNCTION_SCOPE

SessionLevel(pf) == pf.autouse /\ pf.scopenum = SESSION_SCOPE

\* the number of namespace segments of a base id: the directories and the
\* module of its path, and the classes after it
Segments(baseid) ==
    1 + Cardinality({i \in 1..Len(baseid) :
                        \/ baseid[i] = "/"
                        \/ baseid[i] = "::" /\ (i = Len(baseid) \/ baseid[i + 1] # "()")})

\* C6: an effective-autouse session scoped fixture is attached at the index
\* (length of the chain of its base id) - 1: the level it was declared at,
\* inside the test's chain and before the test; 1 for pkg/test_mod.py
C6_SessionAtDeclaredLevel ==
    \A c \in Placements :
        /\ AttachedOnlyAt(c, SessionLevel,
                          LAMBDA pf : Len(get_simplified_chain(pf.baseid)) - 1)
        /\ \A index \in Indices0(c) : \A pf \in AttachedAt(c, index) :
                SessionLevel(pf) =>
                    /\ index = Segments(pf.baseid) - 1
                    /\ index < LastIndex(c)
                    /\ pf.baseid = <<"pkg", "/", "test_mod.py">> => index = 1
                    /\ pf.baseid # <<>> =>
                            ChainNames(get_simplified_chain(pf.baseid))
                                = SubSeq(ChainNames(calls[c].simple_chain), 1, index + 1)

\* a session fixture declared in pkg/test_mod.py was attached at 1 on the
\* chain of a method
C6_Witness ==
    \E c \in Completed : \E pf \in AttachedAt(c, 1) :
        /\ SessionLevel(pf)
        /\ pf.baseid = <<"pkg", "/", "test_mod.py">>
        /\ LastIndex(c) = 3

ModuleLevel(pf) == pf.autouse /\ pf.scopenum = MODULE_SCOPE /\ pf.parameterized

\* the index of the module's segment in the chain of a test
ModulePosition(nodeid) == Len(Split(SubSeq(nodeid, 1, IndexOf(nodeid, "::") - 1), "/")) - 1

DeclaredInClass(pf) == IndexOf(pf.baseid, "::") > 0

\* C7: an effective-autouse module scoped fixture declared in the module
\* file or above it is attached at the index of the module's segment of
\* the test's chain, and every such test result is recorded
C7_ModuleAtModuleSegment ==
    \A c \in 1..Len(calls) : \A pf \in Active(c) :
        ModuleLevel(pf) /\ ~DeclaredInClass(pf) =>
            /\ c \in Completed
            /\ pf \in AttachedAt(c, ModulePosition(calls[c].report.item.nodeid))

\* C8: an effective-autouse module scoped fixture declared in a class is
\* attached at index (length of the test's chain) - 2 and not on the
\* module's segment
C8_ModuleInClassAtClass ==
    \A c \in Completed : \A pf \in Active(c) :
        ModuleLevel(pf) /\ DeclaredInClass(pf) =>
            /\ pf \in AttachedAt(c, LastIndex(c) - 1)
            /\ pf \notin AttachedAt(c, ModulePosition(calls[c].report.item.nodeid))

ClassLevel(pf) == pf.autouse /\ pf.scopenum = CLASS_SCOPE

Declared(fixturedefs) ==
    {fixturedefs[k].argname :
        k \in {j \in 1..Len(fixturedefs) :
                  IF fixturedefs[j].marked THEN fixturedefs[j].autouse ELSE TRUE}}

Effective(pfs) == {pfs[k].name : k \in {j \in 1..Len(pfs) : pfs[j].autouse}}

\* the least set that holds eff and every active fixture in the dependency
\* set of one of its members
RECURSIVE LeastFixedPoint(_, _)
LeastFixedPoint(eff, fixturedefs) ==
    IF \A m \in eff :
            get_fixture_dependancies(m, fixturedefs) \cap FixtureNames(fixturedefs) \subseteq eff
    THEN eff
    ELSE LeastFixedPoint(
            eff \cup UNION {get_fixture_dependancies(m, fixturedefs)
                                \cap FixtureNames(fixturedefs) : m \in eff},
            fixturedefs)

\* the calls in which the cascade ran
Cascades == {c \in 1..Len(calls) : calls[c].param_fixtures # <<>>}

\* C10: after the one pass the effective autouse flags are the least fixed
\* point of the propagation from the declared flags; every order of the
\* fixtures gives the same flags and a second pass changes none
C10_CascadeIsLeastFixedPoint ==
    \A c \in Cascades :
        /\ Effective(calls[c].param_fixtures)
            = LeastFixedPoint(Declared(calls[c].report.item.fixturedefs),
                              calls[c].report.item.fixturedefs)
        /\ \A order \in Orders(Len(calls[c].report.item.fixturedefs)) :
                Effective(CascadeAutouse(Reordered(calls[c].report.item.fixturedefs, order)))
                    = Effective(calls[c].param_fixtures)
        /\ CascadeFrom(calls[c].param_fixtures,
                       Dependancies(calls[c].report.item.fixturedefs), 1)
            = calls[c].param_fixtures

\* the first fixture of the dict became autouse although no fixture that
\* is declared autouse requests it directly
C10_Witness ==
    \E c \in Cascades :
        /\ Len(calls[c].report.item.fixturedefs) = 3
        /\ calls[c].report.item.fixturedefs[1].argname
                \in Effective(calls[c].param_fixtures)
                        \ Declared(calls[c].report.item.fixturedefs)
        /\ \A k \in 1..3 :
                calls[c].report.item.fixturedefs[k].argname
                        \in Declared(calls[c].report.item.fixturedefs)
                    => calls[c].report.item.fixturedefs[1].argname
                            \notin Range(calls[c].report.item.fixturedefs[k].argnames)

\* the calls whose result was attached to the tree
Recordings == {c \in Walks : calls[c].exc = "none"}

\* the branch nodes the c-th call went through
NodesOf(c) == {calls[c].node_chain[i] : i \in Branches(c)}

\* C11: two chains with the same segment names and different parameter
\* descriptors at a branch index resolved to different nodes there and at
\* every deeper branch index; a node counts and holds only the results of
\* the calls that went through it
C11_ParametersBranch ==
    /\ \A a, b \in Walks :
            ChainNames(calls[a].simple_chain) = ChainNames(calls[b].simple_chain) =>
                \A i \in Branches(a) : LinkKey(a, i) # LinkKey(b, i) =>
                    \A j \in i..(Len(calls[a].simple_chain) - 1) :
                        calls[a].node_chain[j] # calls[b].node_chain[j]
    /\ \A n \in Nodes :
            /\ SumSeq([k \in 1..Len(OutcomeOrder) |->
                          Get(node_instances[n].summary, Lower(OutcomeOrder[k]))])
                = Cardinality({c \in Recordings : n \in NodesOf(c)})
            /\ Len(node_instances[n].test_results)
                = Cardinality({c \in Recordings :
                                  calls[c].node_chain[Len(calls[c].node_chain) - 1] = n})

\* the same method ran under both parameters of the module's fixture: two
\* module nodes and two class nodes, one result under each class node
C11_Witness ==
    \E a, b \in Recordings :
        /\ ChainNames(calls[a].simple_chain) = ChainNames(calls[b].simple_chain)
        /\ Len(calls[a].node_chain) = 4
        /\ calls[a].node_chain[1] = calls[b].node_chain[1]
        /\ calls[a].node_chain[2] # calls[b].node_chain[2]
        /\ calls[a].node_chain[3] # calls[b].node_chain[3]
        /\ node_instances[calls[a].node_chain[3]].name
            = node_instances[calls[b].node_chain[3]].name
        /\ Len(node_instances[calls[a].node_chain[3]].test_results) = 1
        /\ Len(node_instances[calls[b].node_chain[3]].test_results) = 1

\* the calls that processed tests/test_x.py::TestC::test_m[1] as Passed
ScenarioCalls ==
    {c \in 1..Len(calls) : calls[c].report.item = ScenarioItem /\ calls[c].outcome = "Passed"}

\* what the call made: one root, a path of three nodes named names without
\* parameters, and one Passed result without parameters under the third
ScenarioPath(names) ==
    /\ Len(node_instances) = 3
    /\ results_tree.results = <<1>>
    /\ \A n \in 1..3 :
            /\ node_instances[n].name = names[n]
            /\ node_instances[n].params = <<>>
            /\ node_instances[n].parent_node = n - 1
            /\ node_instances[n].children = IF n < 3 THEN <<n + 1>> ELSE <<>>
            /\ Len(node_instances[n].test_results) = IF n = 3 THEN 1 ELSE 0
    /\ node_instances[3].test_results[1].outcome = "Passed"
    /\ node_instances[3].test_results[1].params = <<>>
    /\ node_instances[3].test_results[1].name = names[4]
    /\ node_instances[3].test_results[1].nodeid = ScenarioItem.nodeid

\* C12 as stated: the chain is tests, test_x, TestC, test_m[1] and the
\* path is tests -> test_x -> TestC with one result under TestC
C12_ScenarioAsStated ==
    \A c \in ScenarioCalls :
        /\ ChainNames(calls[c].simple_chain)
            = << <<"tests">>, <<"test_x">>, <<"TestC">>, <<"test_m", "[", "1", "]">> >>
        /\ ScenarioPath(<< <<"tests">>, <<"test_x">>, <<"TestC">>, <<"test_m", "[", "1", "]">> >>)

\* C12 (amended): the chain is tests, test_x.py, TestC, test_m: the module
\* segment keeps its suffix and the test's segment loses its parameter
\* suffix; the path is tests -> test_x.py -> TestC with one Passed result
\* named test_m, without descriptors, whose nodeid is the full test id
C12_ScenarioChain ==
    \A c \in ScenarioCalls :
        /\ calls[c].exc = "none"
        /\ ChainNames(calls[c].simple_chain)
            = << <<"tests">>, <<"test_x.py">>, <<"TestC">>, <<"test_m">> >>
        /\ ScenarioPath(<< <<"tests">>, <<"test_x.py">>, <<"TestC">>, <<"test_m">> >>)

\* the scenario's test was processed
C12_Witness ==
    \E c \in ScenarioCalls : calls[c].node_chain = <<1, 2, 3, 0>>

\* the hook the host calls with a report
Hooked(S, report) ==
    IF report.kind = "runtest" THEN pytest_runtest_logreport(S, report)
    ELSE pytest_collectreport(S, report)

\* the state after the reports from the k-th on were processed in turn
RECURSIVE Replayed(_, _, _)
Replayed(S, reports, k) ==
    IF k > Len(reports) THEN S
    ELSE Replayed(Hooked(S, reports[k]).state, reports, k + 1)

\* the state this session started in
Started ==
    [node_instances |-> <<>>,
     pfsi_instances |-> <<>>,
     results_tree |-> [summary |-> ZeroSummary, results |-> <<>>],
     results |-> <<>>,
     counters |-> [k \in DOMAIN counters |-> 0],
     rerun |-> IF rerun = <<>> THEN <<>> ELSE <<0>>,
     param_index |-> <<>>]

\* what __eq__ compares of the descriptors at the registry positions ps
DescriptorKeys(S, ps) ==
    [k \in 1..Len(ps) |-> [fixture_def |-> S.pfsi_instances[ps[k]].fixture_def,
                           param_index |-> S.pfsi_instances[ps[k]].param_index]]

\* the key of node n of state S: name, namespace and descriptors of the
\* nodes from the root down to it
RECURSIVE KeyOf(_, _)
KeyOf(S, n) ==
    IF n = 0 THEN <<>>
    ELSE Append(KeyOf(S, S.node_instances[n].parent_node),
                [name |-> S.node_instances[n].name,
                 namespace |-> S.node_instances[n].namespace,
                 params |-> DescriptorKeys(S, S.node_instances[n].params)])

\* a result with its descriptors in place of their registry positions
LeafOf(S, leaf) ==
    [leaf EXCEPT !.params = DescriptorKeys(S, leaf.params)]

\* how many times each result hangs on node n
LeavesOf(S, n) ==
    [leaf \in {LeafOf(S, S.node_instances[n].test_results[i]) :
                  i \in 1..Len(S.node_instances[n].test_results)} |->
        Cardinality({i \in 1..Len(S.node_instances[n].test_results) :
                        LeafOf(S, S.node_instances[n].test_results[i]) = leaf})]

\* the tree of state S without the order of its lists and without the
\* registry positions
TreeOf(S) ==
    [summary |-> S.results_tree.summary,
     roots |-> {KeyOf(S, S.results_tree.results[i]) : i \in 1..Len(S.results_tree.results)},
     nodes |-> {[key |-> KeyOf(S, n),
                 parent |-> KeyOf(S, S.node_instances[n].parent_node),
                 children |-> {KeyOf(S, S.node_instances[n].children[i]) :
                                  i \in 1..Len(S.node_instances[n].children)},
                 leaves |-> LeavesOf(S, n),
                 summary |-> S.node_instances[n].summary] :
                n \in 1..Len(S.node_instances)}]

\* C13: the reports processed so far, processed in any other order, give
\* the same tree up to the order of the children and result lists: the
\* same nodes by key, parents, children, results, node summaries and
\* session summary
C13_OrderIndependent ==
    \A order \in Orders(Len(calls)) :
        TreeOf(Replayed(Started, [i \in 1..Len(calls) |-> calls[order[i]].report], 1))
            = TreeOf(State)

\* the same method ran under both parameters of the module's fixture and
\* the other order registers the nodes at other positions
C13_Witness ==
    /\ C11_Witness
    /\ \E order \in Orders(Len(calls)) :
            Replayed(Started, [i \in 1..Len(calls) |-> calls[order[i]].report], 1).node_instances
                # node_instances

\* the live fixture definitions the reports so far came with, and the one
\* a descriptor was made of
LiveFixtures ==
    UNION {Range(calls[c].report.item.fixturedefs) : c \in 1..Len(calls)}

Live(p) == CHOOSE fix \in LiveFixtures : fix.fid = pfsi_instances[p].fixture_def

\* name, description, param_index and base id of the p-th descriptor
FourFields(p) ==
    <<pfsi_name(Live(p)),
      pfsi_description(<<pfsi_instances[p].param_index>>, Live(p)),
      pfsi_instances[p].param_index,
      pfsi_baseid(Live(p))>>

\* C14: two descriptors are equal exactly when their name, description,
\* param_index and base id are equal, so the registry, which holds no two
\* equal descriptors, holds no two with the same four fields
C14_EqualByFields ==
    \A p, q \in 1..Len(pfsi_instances) :
        /\ PfsiEq(pfsi_instances[p], pfsi_instances[q]) <=> FourFields(p) = FourFields(q)
        /\ FourFields(p) = FourFields(q) => p = q

\* the nodes that hold a result of the c-th call's test
Holders(c) ==
    {n \in Nodes : \E t \in 1..Len(node_instances[n].test_results) :
                        node_instances[n].test_results[t].nodeid = calls[c].report.nodeid}

\* C15: every result of a test without fixtures that _appendrow is called
\* with, whatever the test id, becomes one leaf on one node, the node of
\* the link before the test
C15_OneLeafOneParent ==
    \A c \in 1..Len(calls) :
        /\ calls[c].report.kind = "runtest"
        /\ calls[c].outcome # "none"
        /\ calls[c].report.item.fixturedefs = <<>>
        => /\ calls[c].exc = "none"
           /\ Cardinality(Holders(c)) = 1
           /\ \A n \in Holders(c) :
                /\ Len(node_instances[n].test_results) = 1
                /\ n = calls[c].node_chain[Len(calls[c].node_chain) - 1]

\* the names that can be reached from the names of set through the
\* argnames of the registered fixtures
RECURSIVE Reached(_, _)
Reached(set, fixturedefs) ==
    IF \A n \in set \cap FixtureNames(fixturedefs) :
            Range(FixtureNamed(fixturedefs, n).argnames) \subseteq set
    THEN set
    ELSE Reached(set \cup UNION {Range(FixtureNamed(fixturedefs, n).argnames) :
                                    n \in set \cap FixtureNames(fixturedefs)},
                 fixturedefs)

\* a registered fixture requests itself, directly or through others
Cyclic(fixturedefs) ==
    \E k \in 1..Len(fixturedefs) :
        fixturedefs[k].argname \in Reached(Range(fixturedefs[k].argnames), fixturedefs)

\* the calls of _appendrow on a report of a test whose item has a callspec
Resolutions ==
    {c \in 1..Len(calls) :
        /\ calls[c].report.kind = "runtest"
        /\ calls[c].outcome # "none"
        /\ calls[c].report.item.has_callspec}

\* C16: when a fixture of the test requests itself, directly or through
\* others, the computation of the dependencies ends, with an error: the
\* hook call ends with RecursionError and records nothing
C16_CycleEndsWithError ==
    \A c \in Resolutions :
        Cyclic(calls[c].report.item.fixturedefs) =>
            /\ calls[c].exc = "RecursionError"
            /\ raised = "RecursionError" \/ c < Len(calls)
            /\ calls[c].node_chain = <<>>

\* a fixture that names itself, or a cycle through other fixtures only,
\* ended the call with RecursionError
C16_Witness ==
    \E c \in Resolutions :
        /\ calls[c].exc = "RecursionError"
        /\ \/ calls[c].report.item.fixturedefs = <<SelfFixture>>
           \/ /\ Len(calls[c].report.item.fixturedefs) = 3
              /\ \A k \in 1..3 :
                    calls[c].report.item.fixturedefs[k].argname
                        \notin Range(calls[c].report.item.fixturedefs[k].argnames)

\* the id of the fixture's parameter cannot be resolved: the list of ids
\* is shorter than the list of parameters, or the callable raises
Unresolvable(fix, index) ==
    \/ fix.ids.kind = "list" /\ fix.ids.items # <<>> /\ index >= Len(fix.ids.items)
    \/ fix.ids.kind = "callable" /\ fix.ids.raises # "none"

IsOther(report) ==
    report.kind = "runtest" /\ report.outcome \notin {"passed", "failed", "skipped"}

\* C18: a hook call on a report that is neither passed, failed nor skipped
\* hands _appendrow the outcome Rerun and leaves the six outcome counters
\* alone; the rerun counter counts it when the rerunfailures plugin is
\* there, and stays None when it is not
C18_OtherIsRerun ==
    [][IsOther(LastCall.report) =>
            /\ LastCall.outcome = "Rerun"
            /\ counters' = counters
            /\ rerun' = (IF rerun = <<>> THEN <<>> ELSE <<rerun[1] + 1>>)]_vars

\* the hook calls that handed _appendrow one of the outcomes
Handed(outcomes) == {c \in 1..Len(calls) : calls[c].outcome \in outcomes}

\* the results the session summary counts, over all outcomes
RECURSIVE SumOver(_, _)
SumOver(d, keys) ==
    IF keys = {} THEN 0
    ELSE Get(d, CHOOSE k \in keys : TRUE)
            + SumOver(d, keys \ {CHOOSE k \in keys : TRUE})

\* C19 as stated: the total test count of the session metadata is the sum
\* of the session summary over all outcomes
C19_NumtestsIsSummaryTotal ==
    numtests(State) = SumOver(results_tree.summary, OutcomeKeys)

\* C19: the total test count of the session metadata is the number of
\* reports classified Passed, Failed, XPassed or XFailed so far, recorded
\* in the tree or not; Skipped, Error and Rerun are not part of it
C19_NumtestsCountsRan ==
    numtests(State) = Cardinality(Handed({"Passed", "Failed", "XPassed", "XFailed"}))

\* a passed and a skipped result are both in the session summary and the
\* total is one
C19_Witness ==
    /\ Get(results_tree.summary, "passed") = 1
    /\ Get(results_tree.summary, "skipped") = 1
    /\ SumOver(results_tree.summary, OutcomeKeys) = 2
    /\ numtests(State) = 1

\* p is q or a beginning of q
IsPrefix(p, q) == Len(p) <= Len(q) /\ \A i \in 1..Len(p) : q[i] = p[i]

\* what a hook call that ended without error added to the count of key on
\* node n: one for the outcome on each node of its chain
Added(call, n, key) ==
    IF call.exc = "none" /\ n \in Range(call.node_chain) /\ key = Lower(call.outcome)
    THEN 1 ELSE 0

\* C20: a node that exists when a hook call starts is the same node when
\* it ends: name, namespace, descriptors, parent and extras as they were,
\* children and results as they were with new ones after them, the counts
\* and the duration as they were plus what the call's result adds.  The
\* constructions that hit the node have reset nothing.
C20_HitReturnsNodeUnchanged ==
    [][\A n \in Nodes :
            /\ n <= Len(node_instances')
            /\ node_instances'[n].name = node_instances[n].name
            /\ node_instances'[n].namespace = node_instances[n].namespace
            /\ node_instances'[n].params = node_instances[n].params
            /\ node_instances'[n].parent_node = node_instances[n].parent_node
            /\ node_instances'[n].extra = node_instances[n].extra
            /\ IsPrefix(node_instances[n].children, node_instances'[n].children)
            /\ IsPrefix(node_instances[n].test_results, node_instances'[n].test_results)
            /\ \A key \in OutcomeKeys :
                    Get(node_instances'[n].summary, key)
                        = Get(node_instances[n].summary, key) + Added(LastCall, n, key)
            /\ node_instances'[n].duration
                    = node_instances[n].duration
                        + (IF LastCall.exc = "none" /\ n \in Range(LastCall.node_chain)
                           THEN LastCall.report.duration ELSE 0)]_vars

\* a second hook call has hit a node the first one made: the node is on
\* both chains and holds the results of both
C20_Witness ==
    \E c \in Walks : \E d \in Walks : \E n \in Nodes :
        /\ c < d
        /\ calls[c].exc = "none"
        /\ calls[d].exc = "none"
        /\ n \in Range(calls[c].node_chain)
        /\ n \in Range(calls[d].node_chain)
        /\ Len(node_instances[n].test_results) = 2

\* the hook calls of the report that is being built, before the one a step
\* adds
RunStart == IF Constructions = {} THEN 0 ELSE CHOOSE c \in Constructions : \A d \in Constructions : d <= c

RunCalls == {c \in HookCalls : c > RunStart}

\* the nodes the chains of the report's earlier tests passed through (0
\* stands for the leaf at the end of a chain)
PassedThrough(cs) == UNION {Range(calls[c].node_chain) : c \in cs}

\* C21: when a hook call ends without error, every node of its chain that
\* no earlier chain of the same report passed through holds the call's
\* result and nothing else: the counts and the duration of that one
\* result, at most one child and at most one leaf
C21_NodeBelongsToOneReport ==
    [][LastCall.exc = "none" =>
        \A n \in (Range(LastCall.node_chain) \ {0}) \ PassedThrough(RunCalls) :
            /\ \A key \in OutcomeKeys :
                    Get(node_instances'[n].summary, key) = Added(LastCall, n, key)
            /\ node_instances'[n].duration = LastCall.report.duration
            /\ Len(node_instances'[n].children) <= 1
            /\ Len(node_instances'[n].test_results) <= 1]_vars

\* the descriptors in the registry
Pfsis == 1..Len(pfsi_instances)

\* the fields of the p-th descriptor that to_dict writes: those kept on the
\* instance and those read from its fixture definition
Serialized(instances, p) ==
    [param_index |-> instances[p].param_index,
     cached_result |-> instances[p].cached_result,
     name |-> pfsi_name(Live(p)),
     baseid |-> pfsi_baseid(Live(p)),
     value |-> pfsi_value(<<instances[p].param_index>>, Live(p)),
     description |-> pfsi_description(<<instances[p].param_index>>, Live(p))]

\* C22: no hook call changes a serialized field of a descriptor that is
\* in the registry when the call starts
C22_DescriptorIsSnapshot ==
    [][\A p \in Pfsis :
            Serialized(pfsi_instances', p) = Serialized(pfsi_instances, p)]_vars

\* every name of the graph: the registered fixtures and what they request
AllNames(fixturedefs) ==
    FixtureNames(fixturedefs)
    \cup UNION {Range(fixturedefs[k].argnames) : k \in 1..Len(fixturedefs)}

\* the argument names of a name: none when it is no registered fixture
ArgumentNames(name, fixturedefs) ==
    IF name \in FixtureNames(fixturedefs)
    THEN Range(FixtureNamed(fixturedefs, name).argnames) ELSE {}

\* the transitive closure of the argument-name relation from name
Closure(name, fixturedefs) == Reached(ArgumentNames(name, fixturedefs), fixturedefs)

\* the calls in which the dependency sets were computed, of a graph
\* without a cycle
Computed == {c \in Resolutions : ~Cyclic(calls[c].report.item.fixturedefs)}

\* C23: in a graph without a cycle the dependency set of a name is the
\* transitive closure of the argument-name relation from that name; the
\* set of a name that is no registered fixture is empty, and the name is
\* in the set of every fixture that requests it
C23_DependanciesAreClosure ==
    \A c \in Computed : \A name \in AllNames(calls[c].report.item.fixturedefs) :
        /\ get_fixture_dependancies(name, calls[c].report.item.fixturedefs)
            = Closure(name, calls[c].report.item.fixturedefs)
        /\ name \notin FixtureNames(calls[c].report.item.fixturedefs) =>
            /\ get_fixture_dependancies(name, calls[c].report.item.fixturedefs) = {}
            /\ \A k \in 1..Len(calls[c].report.item.fixturedefs) :
                    name \in Range(calls[c].report.item.fixturedefs[k].argnames) =>
                        name \in Dependancies(calls[c].report.item.fixturedefs)[
                                    calls[c].report.item.fixturedefs[k].argname]

\* a fixture's set holds a fixture it does not request itself and a name
\* that is no registered fixture
C23_Witness ==
    \E c \in Computed : \E name \in FixtureNames(calls[c].report.item.fixturedefs) :
        /\ Len(calls[c].report.item.fixturedefs) = 3
        /\ get_fixture_dependancies(name, calls[c].report.item.fixturedefs)
                \ ArgumentNames(name, calls[c].report.item.fixturedefs) # {}
        /\ get_fixture_dependancies(name, calls[c].report.item.fixturedefs)
                \ FixtureNames(calls[c].report.item.fixturedefs) # {}

\* the first hook call whose chain reached node n
FirstReach(n) ==
    CHOOSE c \in Walks : /\ n \in Range(calls[c].node_chain)
                         /\ \A d \in Walks : n \in Range(calls[d].node_chain) => c <= d

\* list holds nodes of parent owner, each once, in the order in which the
\* chains first reached them
FirstSeenOrder(list, owner) ==
    /\ \A i \in 1..Len(list) :
            /\ node_instances[list[i]].parent_node = owner
            /\ \E c \in Walks : list[i] \in Range(calls[c].node_chain)
    /\ \A i, j \in 1..Len(list) :
            i < j => /\ list[i] # list[j]
                     /\ FirstReach(list[i]) < FirstReach(list[j])

\* C24: the list of roots and every children list hold each node once, in
\* the order in which the nodes were first reached, and only nodes whose
\* parent is the owner of the list (none for the roots); a hook call leaves
\* the lists as they were, with new nodes after the old
C24_ChildrenInFirstSeenOrder ==
    /\ [](/\ FirstSeenOrder(Roots, 0)
          /\ \A n \in Nodes : FirstSeenOrder(node_instances[n].children, n))
    /\ [][/\ IsPrefix(Roots, results_tree'.results)
          /\ \A n \in Nodes :
                IsPrefix(node_instances[n].children, node_instances'[n].children)]_vars

\* a second test has reached a node that had a child already and has
\* added a second child to it
C24_Witness ==
    \E n \in Nodes : \E c \in Walks : \E d \in Walks :
        /\ c < d
        /\ n \in Range(calls[c].node_chain)
        /\ n \in Range(calls[d].node_chain)
        /\ Len(node_instances[n].children) = 2
        /\ node_instances[n].children[1] \in Range(calls[c].node_chain)
        /\ node_instances[n].children[2] \in Range(calls[d].node_chain)

\* C25: whatever hook calls there were, and when there were none, the
\* generation of the report at the end of the session ends with a
\* document
C25_ReportIsGenerated == generate_report(State).exc = "none"

\* a passed report of the setup or the teardown phase
PassedOutsideCall(report) ==
    report.kind = "runtest" /\ report.outcome = "passed" /\ report.when # "call"

\* C26: a hook call on a passed report of the setup or teardown phase
\* returns and changes no counter, no node, no descriptor, no summary, no
\* root and no table row
C26_PassedOutsideCallChangesNothing ==
    [][PassedOutsideCall(LastCall.report) =>
            /\ LastCall.outcome = "none"
            /\ raised' = "none"
            /\ UNCHANGED <<node_instances, pfsi_instances, results_tree, results,
                           counters, rerun, param_index>>]_vars

\* a test passed its setup and its call: one Passed result, one row
C26_Witness ==
    /\ Len(calls) = 2
    /\ PassedOutsideCall(calls[1].report)
    /\ calls[2].report.nodeid = calls[1].report.nodeid
    /\ calls[2].outcome = "Passed"
    /\ calls[2].exc = "none"
    /\ counters["passed"] = 1
    /\ Get(results_tree.summary, "passed") = 1
    /\ Len(results) = 1

====
